---- MODULE Spec2Model ----
(***************************************************************************)
(* AWSDynamoChatStore (llama_index/storage/chat_store/aws/base.py) and its *)
(* codec (utils.py), as a state machine.                                   *)
(*                                                                         *)
(* Python values are records tagged with their runtime type in field t.    *)
(* A str carries its characters as a sequence of one-character strings, so *)
(* that str(), int(), float() and str.isdigit() are computed on the text.  *)
(* A dict carries its items in insertion order as a sequence of [k, v].    *)
(* A float is held in tenths (15 is 1.5): the floats of the model have one *)
(* fractional digit and stay below the size where repr() uses an exponent. *)
(* A call either returns, [ok |-> TRUE, val |-> v], or raises,             *)
(* [ok |-> FALSE, exc |-> <exception class>, ...].                         *)
(*                                                                         *)
(* Spec runs the methods one whole call at a time; ClientSpec runs them    *)
(* store call by store call for two clients of one table; FaultSpec lets   *)
(* any store call of one client raise; CodecSpec and RowKeySpec apply the  *)
(* codec and the row key format to their inputs.                           *)
(***************************************************************************)
EXTENDS Integers, Sequences, FiniteSets, TLC

VARIABLES table, last, data, wire, back, phase, idxI, idxJ, keyI, keyJ, client

vars == <<table, last, data, wire, back, phase, idxI, idxJ, keyI, keyJ, client>>
storeVars == <<table, last>>
codecVars == <<data, wire, back, phase>>
rowKeyVars == <<idxI, idxJ, keyI, keyJ>>
clientVars == <<client>>

----------------------------------------------------------------------------
(* Python values *)

PyStr(chars) == [t |-> "str", s |-> chars]
PyInt(n) == [t |-> "int", n |-> n]
PyFloat(tenths) == [t |-> "float", tenths |-> tenths]
PyBool(b) == [t |-> "bool", b |-> b]
PyNone == [t |-> "NoneType"]
PyDict(items) == [t |-> "dict", items |-> items]
PyList(elems) == [t |-> "list", elems |-> elems]
PyObject == [t |-> "object"]

\* An optional argument: omitted, or given.
None == [some |-> FALSE]
Some(n) == [some |-> TRUE, v |-> n]

Ok(v) == [ok |-> TRUE, val |-> v]
Raise(exc, key, type) == [ok |-> FALSE, exc |-> exc, key |-> key, type |-> type]

\* isinstance(value, cls): bool is a subclass of int.
IsInstance(value, cls) ==
    \/ value.t = cls
    \/ cls = "int" /\ value.t = "bool"

Digits == <<"0", "1", "2", "3", "4", "5", "6", "7", "8", "9">>

DigitChar(d) == Digits[d + 1]

IsDigitChar(c) == \E d \in 1..10 : Digits[d] = c

DigitVal(c) == (CHOOSE d \in 1..10 : Digits[d] = c) - 1

RECURSIVE NatStr(_)
\* The decimal digits of a natural number, no padding.
NatStr(n) == IF n < 10 THEN <<DigitChar(n)>> ELSE NatStr(n \div 10) \o <<DigitChar(n % 10)>>

\* str(n) of an int.
IntStr(n) == IF n < 0 THEN <<"-">> \o NatStr(-n) ELSE NatStr(n)

\* str(x) of a float held in tenths: repr gives the integer part, a point and
\* the fractional digit.
FloatStr(tenths) ==
    LET a == IF tenths < 0 THEN -tenths ELSE tenths
        body == NatStr(a \div 10) \o <<".", DigitChar(a % 10)>>
    IN  IF tenths < 0 THEN <<"-">> \o body ELSE body

BoolStr(b) == IF b THEN <<"T", "r", "u", "e">> ELSE <<"F", "a", "l", "s", "e">>

\* str(value) as serialize calls it, on the values that reach the int and
\* float branches.
Str(value) ==
    CASE value.t = "bool" -> BoolStr(value.b)
      [] value.t = "int" -> IntStr(value.n)
      [] value.t = "float" -> FloatStr(value.tenths)

\* str.isdigit(): non-empty and every character a digit.
IsDigit(chars) == Len(chars) > 0 /\ \A i \in 1..Len(chars) : IsDigitChar(chars[i])

RECURSIVE DigitsVal(_)
DigitsVal(chars) ==
    IF Len(chars) = 0 THEN 0
    ELSE 10 * DigitsVal(SubSeq(chars, 1, Len(chars) - 1)) + DigitVal(chars[Len(chars)])

\* int(text) on a text that passed isdigit().
ParseInt(chars) == Ok(PyInt(DigitsVal(chars)))

\* float(text): an optional sign, digits, and optionally a point and one
\* digit; any other text raises ValueError.
ParseFloat(chars) ==
    LET signed == Len(chars) > 0 /\ chars[1] \in {"-", "+"}
        body == IF signed THEN SubSeq(chars, 2, Len(chars)) ELSE chars
        n == Len(body)
        sgn == IF signed /\ chars[1] = "-" THEN -1 ELSE 1
    IN  IF IsDigit(body) THEN Ok(PyFloat(sgn * 10 * DigitsVal(body)))
        ELSE IF /\ n >= 3
                /\ body[n - 1] = "."
                /\ IsDigit(SubSeq(body, 1, n - 2))
                /\ IsDigitChar(body[n])
             THEN Ok(PyFloat(sgn * (10 * DigitsVal(SubSeq(body, 1, n - 2)) + DigitVal(body[n]))))
        ELSE Raise("ValueError", "", "str")

\* key in d, d[key] for a dict.
HasKey(d, key) == \E i \in 1..Len(d.items) : d.items[i].k = key

Get(d, key) == d.items[CHOOSE i \in 1..Len(d.items) : d.items[i].k = key].v

Tagged(tag, v) == PyDict(<<[k |-> tag, v |-> v]>>)

----------------------------------------------------------------------------
(* utils.py *)

\* A comprehension or a loop that has done one element, e, and goes on with
\* the rest: the first raise is the result.
ThenList(e, rest) ==
    IF ~e.ok THEN e ELSE IF rest.ok THEN Ok(<<e.val>> \o rest.val) ELSE rest

ThenItem(key, e, rest) ==
    IF ~e.ok THEN e
    ELSE IF rest.ok THEN Ok(<<[k |-> key, v |-> e.val]>> \o rest.val) ELSE rest

\* {tag: r} of a call that returned, its exception otherwise.
TagResult(tag, r) == IF r.ok THEN Ok(Tagged(tag, r.val)) ELSE r

ListResult(r) == IF r.ok THEN Ok(PyList(r.val)) ELSE r

DictResult(r) == IF r.ok THEN Ok(PyDict(r.val)) ELSE r

RECURSIVE serialize(_), SerItems(_, _), SerValue(_, _), SerList(_, _)

SerValueNoTypeError(key, value) ==
    IF IsInstance(value, "str") THEN Ok(Tagged("S", value))
    ELSE IF IsInstance(value, "int") THEN Ok(Tagged("N", PyStr(Str(value))))
    ELSE IF IsInstance(value, "float") THEN Ok(Tagged("N", PyStr(Str(value))))
    ELSE IF IsInstance(value, "dict") THEN TagResult("M", serialize(value))
    ELSE IF IsInstance(value, "list") THEN TagResult("L", ListResult(SerList(value.elems, 1)))
    ELSE Ok(Tagged("NULL", PyBool(TRUE)))

\* One pass of the loop body of serialize: the if/elif chain on the value.
SerValue(key, value) ==
    IF IsInstance(value, "str") THEN Ok(Tagged("S", value))
    ELSE IF IsInstance(value, "int") THEN Ok(Tagged("N", PyStr(Str(value))))
    ELSE IF IsInstance(value, "float") THEN Ok(Tagged("N", PyStr(Str(value))))
    ELSE IF IsInstance(value, "bool") THEN Ok(Tagged("BOOL", value))
    ELSE IF IsInstance(value, "dict") THEN TagResult("M", serialize(value))
    ELSE IF IsInstance(value, "list") THEN TagResult("L", ListResult(SerList(value.elems, 1)))
    ELSE IF value.t = "NoneType" THEN Ok(Tagged("NULL", PyBool(TRUE)))
    ELSE Raise("TypeError", key, value.t)

\* [serialize(v) if isinstance(v, dict) else v for v in value], from element i.
SerList(elems, i) ==
    IF i > Len(elems) THEN Ok(<<>>)
    ELSE ThenList(IF IsInstance(elems[i], "dict") THEN serialize(elems[i]) ELSE Ok(elems[i]),
                  SerList(elems, i + 1))

\* for key, value in data.items(), from item i: the first raise ends the loop.
SerItems(items, i) ==
    IF i > Len(items) THEN Ok(<<>>)
    ELSE ThenItem(items[i].k, SerValue(items[i].k, items[i].v), SerItems(items, i + 1))

serialize(d) == DictResult(SerItems(d.items, 1))

\* value["N"]: int(text) if text.isdigit() else float(text)
ParseNumber(key, text) ==
    IF text.t # "str" THEN Raise("AttributeError", key, text.t)
    ELSE IF IsDigit(text.s) THEN ParseInt(text.s)
    ELSE IF ParseFloat(text.s).ok THEN ParseFloat(text.s)
    ELSE Raise("ValueError", key, "str")

RECURSIVE deserialize(_), DesItems(_, _), DesValue(_, _), DesList(_, _)

\* One pass of the loop body of deserialize. `"S" in value` on a value that
\* is no dict is false for a str or a list and raises TypeError for the
\* other types, so every value that is no dict ends in TypeError.
DesValue(key, value) ==
    IF value.t # "dict" THEN Raise("TypeError", key, value.t)
    ELSE IF HasKey(value, "S") THEN Ok(Get(value, "S"))
    ELSE IF HasKey(value, "N") THEN ParseNumber(key, Get(value, "N"))
    ELSE IF HasKey(value, "BOOL") THEN Ok(Get(value, "BOOL"))
    ELSE IF HasKey(value, "M") THEN deserialize(Get(value, "M"))
    ELSE IF HasKey(value, "L") THEN ListResult(DesList(Get(value, "L").elems, 1))
    ELSE IF HasKey(value, "NULL") THEN Ok(PyNone)
    ELSE Raise("TypeError", key, "dict")

\* [deserialize(v) if isinstance(v, dict) else v for v in value["L"]]
DesList(elems, i) ==
    IF i > Len(elems) THEN Ok(<<>>)
    ELSE ThenList(IF IsInstance(elems[i], "dict") THEN deserialize(elems[i]) ELSE Ok(elems[i]),
                  DesList(elems, i + 1))

DesItems(items, i) ==
    IF i > Len(items) THEN Ok(<<>>)
    ELSE ThenItem(items[i].k, DesValue(items[i].k, items[i].v), DesItems(items, i + 1))

deserialize(d) ==
    IF d.t # "dict" THEN Raise("AttributeError", "", d.t) ELSE DictResult(DesItems(d.items, 1))

----------------------------------------------------------------------------
(* base.py: row keys and the table *)

\* The width of f"{idx:010}".
RowKeyWidth == 10

RECURSIVE Zeros(_)
Zeros(n) == IF n <= 0 THEN <<>> ELSE <<"0">> \o Zeros(n - 1)

\* f"{idx:010}": the sign first, then zeros up to the width, then the digits;
\* a number wider than the width is not cut.
NoPadRowKey(idx) == IntStr(idx)

_to_row_key(idx) ==
    LET sign == IF idx < 0 THEN <<"-">> ELSE <<>>
        digits == NatStr(IF idx < 0 THEN -idx ELSE idx)
    IN  sign \o Zeros(RowKeyWidth - Len(sign) - Len(digits)) \o digits

\* ord(c) of the characters a row key is made of.
Ord(c) == IF c = "-" THEN 45 ELSE 48 + DigitVal(c)

Min(a, b) == IF a < b THEN a ELSE b

\* a < b on str: the first differing character decides, and a proper prefix
\* is smaller.
StrLess(a, b) ==
    \/ \E i \in 1..Min(Len(a), Len(b)) :
          /\ \A j \in 1..(i - 1) : a[j] = b[j]
          /\ Ord(a[i]) < Ord(b[i])
    \/ /\ Len(a) < Len(b)
       /\ \A j \in 1..Len(a) : a[j] = b[j]

\* The table holds items [PartitionKey, RowKey, msg]; (PartitionKey, RowKey)
\* is its primary key.
SameKey(item, pk, rk) == item.PartitionKey = pk /\ item.RowKey = rk

Item(pk, rk, msg) == [PartitionKey |-> pk, RowKey |-> rk, msg |-> msg]

PutItemIfAbsent(t, item) ==
    IF \E x \in t : SameKey(x, item.PartitionKey, item.RowKey) THEN t ELSE t \cup {item}

\* chat_table.put_item(Item=...): insert, or overwrite the item of that key.
put_item(t, item) ==
    {x \in t : ~SameKey(x, item.PartitionKey, item.RowKey)} \cup {item}

DeleteRowAnyPartition(t, pk, rk) == {x \in t : x.RowKey # rk}

DeletePartition(t, pk, rk) == {x \in t : x.PartitionKey # pk}

\* chat_table.delete_item(Key=...): no error when the item is absent.
delete_item(t, pk, rk) == {x \in t : ~SameKey(x, pk, rk)}

RECURSIVE SortItems(_)
SortItems(S) ==
    IF S = {} THEN <<>>
    ELSE LET m == CHOOSE x \in S : \A y \in S \ {x} : StrLess(x.RowKey, y.RowKey)
         IN  <<m>> \o SortItems(S \ {m})

\* chat_table.query(KeyConditionExpression=Key(...).eq(key))["Items"]: the
\* items of the partition, ascending by RowKey.
query(t, key) == SortItems({x \in t : x.PartitionKey = key})

FirstPageScan(t) == IF t = {} THEN {} ELSE {CHOOSE x \in t : TRUE}

\* chat_table.scan()["Items"]
scan(t) == t

RECURSIVE ApplyBatch(_, _)
\* The batch writer's buffer, applied request by request.
ApplyBatch(t, ops) ==
    IF Len(ops) = 0 THEN t
    ELSE LET o == ops[1]
             t1 == IF o.op = "delete" THEN delete_item(t, o.pk, o.rk) ELSE put_item(t, o.item)
         IN  ApplyBatch(t1, Tail(ops))

BatchDeletesByPosition(key, items) ==
    [i \in 1..(Len(items) + 1) |-> [op |-> "delete", pk |-> key, rk |-> _to_row_key(i - 1)]]

BatchDeletes(key, items) ==
    [i \in 1..Len(items) |-> [op |-> "delete", pk |-> key, rk |-> items[i].RowKey]]

RowKeys(items) == [i \in 1..Len(items) |-> items[i].RowKey]

----------------------------------------------------------------------------
(* Bounds and inputs *)

\* The longest list passed to set_messages.
MaxLen == 2
\* The largest explicit index passed to add_message and delete_message,
\* apart from the index that is out of bounds whatever the table holds.
MaxIdx == 1
\* The most items the table holds.
MaxItems == 2
\* The nesting depth of the objects given to the codec.
MaxDepth == 1

Keys == {"a", "b"}

Message(role, content, kwargs) ==
    PyDict(<<[k |-> "role", v |-> PyStr(role)],
             [k |-> "content", v |-> content],
             [k |-> "additional_kwargs", v |-> PyDict(kwargs)]>>)

msgA == Message(<<"u">>, PyStr(<<"h", "i">>), <<>>)
msgB == Message(<<"a">>, PyNone, <<[k |-> "n", v |-> PyInt(7)]>>)
msgT == Message(<<"u">>, PyStr(<<"o", "k">>), <<[k |-> "flag", v |-> PyBool(TRUE)]>>)

Messages == {msgA, msgB, msgT}

\* The lists passed to set_messages: up to MaxLen messages, no message twice.
MessageLists ==
    UNION {{ms \in [1..n -> Messages] : \A i, j \in 1..n : ms[i] = ms[j] => i = j} :
              n \in 0..MaxLen}

\* The idx argument: omitted, or an int (a negative one included, and one
\* above every count the table allows).
IdxArgs == {None} \cup {Some(n) : n \in -1..MaxIdx} \cup {Some(MaxItems + 1)}

Scalars ==
    {PyStr(<<"h", "i">>), PyStr(<<>>), PyInt(0), PyInt(7), PyInt(10), PyInt(-3),
     PyFloat(15), PyFloat(-5), PyFloat(20), PyBool(TRUE), PyBool(FALSE), PyNone, PyObject}

Lists ==
    {PyList(<<PyDict(<<[k |-> "z", v |-> PyInt(1)]>>)>>),
     PyList(<<PyInt(1), PyDict(<<[k |-> "z", v |-> PyStr(<<"s">>)]>>)>>),
     PyList(<<PyDict(<<[k |-> "z", v |-> PyInt(-3)]>>)>>)}

RECURSIVE Values(_)
\* The field values nested at most d objects deep.
Values(d) ==
    Scalars \cup Lists \cup
    (IF d = 0 THEN {} ELSE {PyDict(<<[k |-> "in", v |-> v]>>) : v \in Values(d - 1)})

\* The objects given to serialize: one field, or two.
Objects ==
    {PyDict(<<[k |-> "x", v |-> v]>>) : v \in Values(MaxDepth)} \cup
    {PyDict(<<[k |-> "x", v |-> v], [k |-> "y", v |-> w]>>) :
        v \in Values(MaxDepth), w \in Scalars}

\* Indices on both sides of every change of the digit count TLC's integers
\* reach, and below zero.
SampleIdx ==
    {-2, -1, 0, 1, 9, 10, 11, 99, 100, 101, 999999999, 1000000000, 2147483647}

NoValue == [ok |-> FALSE, exc |-> "unset", key |-> "", type |-> ""]

\* The row keys, the encodings and the decodings the operations compute,
\* each computed once.
RowKeyOf == [idx \in -1..(MaxItems + MaxIdx) |-> _to_row_key(idx)]

Encoded == [m \in Messages |-> serialize(m)]

Decoded == [w \in {serialize(m).val : m \in {x \in Messages : serialize(x).ok}} |-> deserialize(w)]

----------------------------------------------------------------------------
(* base.py: the operations.  A ChatMessage is held as its dict(): role,     *)
(* content, additional_kwargs.  Each operator gives the table after the    *)
(* call and what the call returned or raised.                              *)

Outcome(t, result) == [table |-> t, result |-> result]

\* The smallest i with Encoded[messages[i]] raising, Len + 1 when none does.
FirstRaise(messages) ==
    LET bad == {i \in 1..Len(messages) : ~Encoded[messages[i]].ok}
    IN  IF bad = {} THEN Len(messages) + 1
        ELSE CHOOSE i \in bad : \A j \in bad : i <= j

\* set_messages: the query, then in one batch a delete per item found and a
\* put per message.  A raise of serialize inside the with block leaves the
\* requests buffered so far to be flushed on exit.
set_messages(t, key, messages) ==
    LET response == query(t, key)
        stop == FirstRaise(messages)
        puts == [i \in 1..(stop - 1) |->
                    [op |-> "put",
                     item |-> Item(key, RowKeyOf[i - 1], Encoded[messages[i]].val)]]
    IN  Outcome(ApplyBatch(t, BatchDeletes(key, response) \o puts),
                IF stop <= Len(messages) THEN Encoded[messages[stop]] ELSE Ok(PyNone))

RECURSIVE DecodeItems(_, _)
\* [ChatMessage.parse_obj(deserialize(item["msg"])) for item in response["Items"]]
DecodeItems(items, i) ==
    IF i > Len(items) THEN Ok(<<>>)
    ELSE LET e == Decoded[items[i].msg]
         IN  IF ~e.ok THEN e
             ELSE LET rest == DecodeItems(items, i + 1)
                  IN  IF rest.ok THEN Ok(<<e.val>> \o rest.val) ELSE rest

get_messages(t, key) == DecodeItems(query(t, key), 1)

IndexOutOfBounds(idx) == Raise("ValueError", "Index out of bounds", idx)

AddMessageNoCheck(t, key, message, idx) ==
    LET got == get_messages(t, key)
    IN  IF ~got.ok THEN Outcome(t, got)
        ELSE LET at == IF idx.some THEN idx.v ELSE Len(got.val)
                 msg == Encoded[message]
             IN  IF ~msg.ok THEN Outcome(t, msg)
                 ELSE Outcome(put_item(t, Item(key, RowKeyOf[at], msg.val)), Ok(PyNone))

\* add_message: the count of the decoded messages, the bounds check, the put.
add_message(t, key, message, idx) ==
    LET got == get_messages(t, key)
    IN  IF ~got.ok THEN Outcome(t, got)
        ELSE LET next_index == Len(got.val)
             IN  IF idx.some /\ idx.v > next_index THEN Outcome(t, IndexOutOfBounds(idx.v))
                 ELSE LET at == IF idx.some THEN idx.v ELSE next_index
                          msg == Encoded[message]
                      IN  IF ~msg.ok THEN Outcome(t, msg)
                          ELSE Outcome(put_item(t, Item(key, RowKeyOf[at], msg.val)),
                                       Ok(PyNone))

DeleteMessagesFirstOnly(t, key) ==
    LET response == query(t, key)
    IN  Outcome(ApplyBatch(t, BatchDeletes(key, SubSeq(response, 1, Min(1, Len(response))))),
                Ok(PyNone))

\* delete_messages: the query, then a batch with a delete per item found.
delete_messages(t, key) ==
    Outcome(ApplyBatch(t, BatchDeletes(key, query(t, key))), Ok(PyNone))

\* delete_message: one delete at the row key of idx.
delete_message(t, key, idx) == Outcome(delete_item(t, key, RowKeyOf[idx]), Ok(PyNone))

DeleteLastAnyPartition(t, key) ==
    LET got == get_messages(t, key)
    IN  IF ~got.ok THEN Outcome(t, got)
        ELSE Outcome({x \in t : x.RowKey # RowKeyOf[Len(got.val) - 1]}, Ok(PyNone))

\* delete_last_message: one delete at the row key of the count minus one.
delete_last_message(t, key) ==
    LET got == get_messages(t, key)
    IN  IF ~got.ok THEN Outcome(t, got)
        ELSE Outcome(delete_item(t, key, RowKeyOf[Len(got.val) - 1]), Ok(PyNone))

\* last_row_key of delete_last_message, <<>> when get_messages raised.
LastRowKey(t, key) ==
    IF get_messages(t, key).ok THEN RowKeyOf[Len(get_messages(t, key).val) - 1] ELSE <<>>

\* get_keys: set([item[key_name] for item in response["Items"]])
get_keys(t) == Outcome(t, Ok({item.PartitionKey : item \in scan(t)}))

----------------------------------------------------------------------------
(* The store: one action per public method *)

Idle == [op |-> "init"]

CodecIdle == data = NoValue /\ wire = NoValue /\ back = NoValue /\ phase = "idle"

RowKeyIdle == idxI = 0 /\ idxJ = 0 /\ keyI = <<>> /\ keyJ = <<>>

\* Two clients of the one table, each an AWSDynamoChatStore in a process of
\* its own.
Clients == {"p", "q"}

\* A client between calls, and the locals of the call it is in: pc is the
\* store call it makes next.
NoCall ==
    [pc |-> "idle", op |-> "none", key |-> "", messages |-> <<>>, idx |-> None,
     response |-> <<>>, buffer |-> <<>>, next_index |-> 0,
     result |-> NoValue, failed |-> FALSE, raced |-> FALSE]

ClientsIdle == client = [c \in Clients |-> NoCall]

Init == table = {} /\ last = Idle /\ CodecIdle /\ RowKeyIdle /\ ClientsIdle

SetMessages ==
    \E key \in Keys, messages \in MessageLists :
        /\ LET out == set_messages(table, key, messages)
           IN  /\ Cardinality(out.table) <= MaxItems
               /\ table' = out.table
               /\ last' = [op |-> "set_messages", key |-> key, messages |-> messages,
                           response |-> RowKeys(query(table, key)), result |-> out.result]
        /\ UNCHANGED <<codecVars, rowKeyVars, clientVars>>

GetMessages ==
    \E key \in Keys :
        /\ last' = [op |-> "get_messages", key |-> key, result |-> get_messages(table, key)]
        /\ UNCHANGED <<table, codecVars, rowKeyVars, clientVars>>

AddMessage ==
    \E key \in Keys, message \in Messages, idx \in IdxArgs :
        /\ LET out == add_message(table, key, message, idx)
           IN  /\ Cardinality(out.table) <= MaxItems
               /\ table' = out.table
               /\ last' = [op |-> "add_message", key |-> key, message |-> message,
                           idx |-> idx, result |-> out.result,
                           grew |-> Cardinality(out.table) > Cardinality(table)]
        /\ UNCHANGED <<codecVars, rowKeyVars, clientVars>>

DeleteMessages ==
    \E key \in Keys :
        /\ LET out == delete_messages(table, key)
           IN  /\ table' = out.table
               /\ last' = [op |-> "delete_messages", key |-> key,
                           response |-> RowKeys(query(table, key)), result |-> out.result]
        /\ UNCHANGED <<codecVars, rowKeyVars, clientVars>>

DeleteMessage ==
    \E key \in Keys, idx \in 0..MaxIdx :
        /\ LET out == delete_message(table, key, idx)
           IN  /\ table' = out.table
               /\ last' = [op |-> "delete_message", key |-> key, idx |-> idx,
                           result |-> out.result]
        /\ UNCHANGED <<codecVars, rowKeyVars, clientVars>>

DeleteLastMessage ==
    \E key \in Keys :
        /\ LET out == delete_last_message(table, key)
           IN  /\ table' = out.table
               /\ last' = [op |-> "delete_last_message", key |-> key, result |-> out.result,
                           last_row_key |-> LastRowKey(table, key)]
        /\ UNCHANGED <<codecVars, rowKeyVars, clientVars>>

GetKeys ==
    /\ last' = [op |-> "get_keys", result |-> get_keys(table).result]
    /\ UNCHANGED <<table, codecVars, rowKeyVars, clientVars>>

Next ==
    \/ SetMessages
    \/ GetMessages
    \/ AddMessage
    \/ DeleteMessages
    \/ DeleteMessage
    \/ DeleteLastMessage
    \/ GetKeys

Spec == Init /\ [][Next]_vars

----------------------------------------------------------------------------
(* The codec on its own: serialize an object, then deserialize the result *)

CodecInit ==
    /\ table = {} /\ last = Idle /\ RowKeyIdle /\ ClientsIdle
    /\ data \in Objects
    /\ wire = NoValue /\ back = NoValue /\ phase = "input"

Serialize ==
    /\ phase = "input"
    /\ wire' = serialize(data)
    /\ phase' = "encoded"
    /\ UNCHANGED <<data, back, storeVars, rowKeyVars, clientVars>>

Deserialize ==
    /\ phase = "encoded"
    /\ wire.ok
    /\ back' = deserialize(wire.val)
    /\ phase' = "decoded"
    /\ UNCHANGED <<data, wire, storeVars, rowKeyVars, clientVars>>

CodecNext == Serialize \/ Deserialize

CodecSpec == CodecInit /\ [][CodecNext]_vars

----------------------------------------------------------------------------
(* Row keys on their own: format two indices *)

RowKeyInit ==
    /\ table = {} /\ last = Idle /\ CodecIdle /\ ClientsIdle
    /\ idxI \in SampleIdx /\ idxJ \in SampleIdx
    /\ keyI = <<>> /\ keyJ = <<>>

FormatRowKeys ==
    /\ keyI = <<>>
    /\ keyI' = _to_row_key(idxI)
    /\ keyJ' = _to_row_key(idxJ)
    /\ UNCHANGED <<idxI, idxJ, storeVars, codecVars, clientVars>>

RowKeyNext == FormatRowKeys

RowKeySpec == RowKeyInit /\ [][RowKeyNext]_vars

----------------------------------------------------------------------------
(* The methods store call by store call, two clients on one table.  No     *)
(* method takes a lock or catches an exception: between two store calls of *)
(* one client the other may make its own, and a store call that raises     *)
(* ends the method.  A batch is sent as one call and applied by the store  *)
(* one request at a time.  A method begins with its first store call.      *)

ClientKeys == {"a"}

ClientMessages == {msgA, msgB}

ClientLists ==
    UNION {{ms \in [1..n -> ClientMessages] : \A i, j \in 1..n : ms[i] = ms[j] => i = j} :
              n \in 0..MaxLen}

\* The exception of a store call that failed (botocore's ClientError).
StoreError == Raise("ClientError", "", "")

Invoke(op, key, messages, idx, pc) ==
    [NoCall EXCEPT !.op = op, !.key = key, !.messages = messages, !.idx = idx, !.pc = pc]

\* Every method, each call at its first store call.
AllCalls ==
    UNION {{Invoke("set_messages", key, ms, None, "query") : ms \in ClientLists} \cup
           {Invoke("get_messages", key, <<>>, None, "query"),
            Invoke("delete_messages", key, <<>>, None, "query"),
            Invoke("delete_last_message", key, <<>>, None, "query")} \cup
           {Invoke("add_message", key, <<m>>, idx, "query") :
                m \in ClientMessages, idx \in {None} \cup {Some(n) : n \in 0..MaxIdx}} \cup
           {Invoke("delete_message", key, <<>>, Some(n), "delete") : n \in 0..MaxIdx} :
              key \in ClientKeys}
    \cup {Invoke("get_keys", "", <<>>, None, "scan")}

\* The calls of two clients sharing a conversation: replace it, append to
\* it without an index, read it.
SharedCalls == {i \in AllCalls : i.op \in {"set_messages", "get_messages"} \/
                                 (i.op = "add_message" /\ ~i.idx.some)}

\* The records of client c about to make a store call of this kind: the
\* call it is in, or a new call that starts with one.
At(c, kind, calls) ==
    IF client[c].pc \in {"idle", "done"} THEN {i \in calls : i.pc = kind}
    ELSE IF client[c].pc = kind THEN {client[c]}
    ELSE {}

\* The method returned r, or raised it.
Return(c, r) == [c EXCEPT !.pc = "done", !.result = r, !.buffer = <<>>]

RetryCall(c) == [c EXCEPT !.failed = TRUE]

\* A store call raised: nothing catches it, the method ends with it.
Propagate(c) == [Return(c, StoreError) EXCEPT !.failed = TRUE]

\* The put requests of set_messages, up to the first message serialize
\* raises on.
BatchPuts(key, messages) ==
    [i \in 1..(FirstRaise(messages) - 1) |->
        [op |-> "put", item |-> Item(key, RowKeyOf[i - 1], Encoded[messages[i]].val)]]

\* What the with block of set_messages ends with.
SetResult(messages) ==
    IF FirstRaise(messages) <= Len(messages) THEN Encoded[messages[FirstRaise(messages)]]
    ELSE Ok(PyNone)

\* Leaving the with block with the requests buffered: none, and the method
\* is over; some, and they go out as a batch.
WithBatch(c, items, buffer, r) ==
    IF Len(buffer) = 0 THEN [Return(c, r) EXCEPT !.response = RowKeys(items)]
    ELSE [c EXCEPT !.pc = "batch", !.response = RowKeys(items), !.buffer = buffer, !.result = r]

\* add_message after its get_messages: the count, the bounds check,
\* serialize, and on to the put.
AddAfterCount(c, got) ==
    IF ~got.ok THEN Return(c, got)
    ELSE IF c.idx.some /\ c.idx.v > Len(got.val) THEN Return(c, IndexOutOfBounds(c.idx.v))
    ELSE IF ~Encoded[c.messages[1]].ok THEN Return(c, Encoded[c.messages[1]])
    ELSE [c EXCEPT !.pc = "put", !.next_index = Len(got.val)]

\* delete_last_message after its get_messages.
DeleteLastAfterCount(c, got) ==
    IF ~got.ok THEN Return(c, got) ELSE [c EXCEPT !.pc = "delete", !.next_index = Len(got.val)]

\* The client after its query returned items.
AfterQuery(c, items) ==
    CASE c.op = "set_messages" ->
             WithBatch(c, items, BatchDeletes(c.key, items) \o BatchPuts(c.key, c.messages),
                       SetResult(c.messages))
      [] c.op = "delete_messages" -> WithBatch(c, items, BatchDeletes(c.key, items), Ok(PyNone))
      [] c.op = "get_messages" -> Return(c, DecodeItems(items, 1))
      [] c.op = "add_message" -> AddAfterCount(c, DecodeItems(items, 1))
      [] c.op = "delete_last_message" -> DeleteLastAfterCount(c, DecodeItems(items, 1))

\* The index add_message writes at.
PutIndex(c) == IF c.idx.some THEN c.idx.v ELSE c.next_index

AddPutIfVacant(t, c) ==
    IF \E x \in t : SameKey(x, c.key, RowKeyOf[PutIndex(c)])
    THEN Outcome(t, Raise("ClientError", "ConditionalCheckFailed", ""))
    ELSE Outcome(put_item(t, Item(c.key, RowKeyOf[PutIndex(c)], Encoded[c.messages[1]].val)),
                 Ok(PyNone))

\* The put_item of add_message: no condition on what the row key holds.
AddPut(t, c) ==
    Outcome(put_item(t, Item(c.key, RowKeyOf[PutIndex(c)], Encoded[c.messages[1]].val)),
            Ok(PyNone))

\* The row key delete_message and delete_last_message delete at.
DeleteRowKey(c) ==
    IF c.op = "delete_message" THEN RowKeyOf[c.idx.v] ELSE RowKeyOf[c.next_index - 1]

\* An add_message of another client, index omitted, holds the same count
\* for the same key and has not written yet.
SameCount(w, c) ==
    /\ w.op = "add_message" /\ w.pc = "put" /\ w.key = c.key
    /\ c.op = "add_message" /\ c.pc = "put"
    /\ ~w.idx.some /\ ~c.idx.some
    /\ w.next_index = c.next_index

Query(c, calls) ==
    /\ \E me \in At(c, "query", calls) :
           client' =
               [client EXCEPT ![c] =
                   [AfterQuery(me, query(table, me.key)) EXCEPT !.raced =
                       \E o \in Clients \ {c} :
                           SameCount(client[o], AfterQuery(me, query(table, me.key)))]]
    /\ UNCHANGED <<storeVars, codecVars, rowKeyVars>>

\* The store applies the next request of the batch; after the last one the
\* call returns and so does the method.
BatchWrite(c) ==
    /\ client[c].pc = "batch"
    /\ table' = ApplyBatch(table, <<Head(client[c].buffer)>>)
    /\ Cardinality(table') <= MaxItems
    /\ client' =
           [client EXCEPT ![c] =
               IF Len(client[c].buffer) = 1 THEN Return(client[c], client[c].result)
               ELSE [client[c] EXCEPT !.buffer = Tail(@)]]
    /\ UNCHANGED <<last, codecVars, rowKeyVars>>

PutItem(c) ==
    /\ client[c].pc = "put"
    /\ LET out == AddPut(table, client[c])
       IN  /\ Cardinality(out.table) <= MaxItems
           /\ table' = out.table
           /\ client' = [client EXCEPT ![c] = Return(client[c], out.result)]
    /\ UNCHANGED <<last, codecVars, rowKeyVars>>

DeleteItem(c, calls) ==
    /\ \E me \in At(c, "delete", calls) :
           /\ table' = delete_item(table, me.key, DeleteRowKey(me))
           /\ client' = [client EXCEPT ![c] = Return(me, Ok(PyNone))]
    /\ UNCHANGED <<last, codecVars, rowKeyVars>>

Scan(c, calls) ==
    /\ \E me \in At(c, "scan", calls) :
           client' = [client EXCEPT ![c] = Return(me, get_keys(table).result)]
    /\ UNCHANGED <<storeVars, codecVars, rowKeyVars>>

\* The store call the client is at raises instead.
StoreFails(c, calls) ==
    /\ \E kind \in {"query", "batch", "put", "delete", "scan"} :
           \E me \in At(c, kind, calls) : client' = [client EXCEPT ![c] = Propagate(me)]
    /\ UNCHANGED <<storeVars, codecVars, rowKeyVars>>

\* Two clients on one conversation, no store call failing.
ClientNext ==
    \E c \in Clients :
        \/ Query(c, SharedCalls)
        \/ BatchWrite(c)
        \/ PutItem(c)

ClientSpec == Init /\ [][ClientNext]_vars

\* One client calling every method, any store call of which may fail.
FaultNext ==
    \/ Query("p", AllCalls)
    \/ BatchWrite("p")
    \/ PutItem("p")
    \/ DeleteItem("p", AllCalls)
    \/ Scan("p", AllCalls)
    \/ StoreFails("p", AllCalls)

FaultSpec == Init /\ [][FaultNext]_vars

----------------------------------------------------------------------------
(* Properties of the store *)

\* The items of a partition other than the one at row key rk, in query order.
Except(items, rk) == SelectSeq(items, LAMBDA x : x.RowKey # rk)

\* C1 (as stated): after set_messages(k, ms) has returned, get_messages(k)
\* returns exactly ms in order, message i sits at the row key of i, and no
\* other item is left under k.
C1_SetThenGetReturnsMessages ==
    (last.op = "set_messages" /\ last.result.ok) =>
        /\ RowKeys(query(table, last.key)) =
               [i \in 1..Len(last.messages) |-> _to_row_key(i - 1)]
        /\ get_messages(table, last.key) = Ok(last.messages)

\* C2 (as stated): add_message(k, m) with the index omitted puts m after the
\* messages get_messages(k) returned before the call, in every reachable
\* state, when the messages before and after can be read back.
C2_AppendAddsAtEnd ==
    [][(/\ last'.op = "add_message"
        /\ ~last'.idx.some
        /\ last'.result.ok
        /\ get_messages(table, last'.key).ok
        /\ get_messages(table', last'.key).ok)
       => get_messages(table', last'.key).val =
              Append(get_messages(table, last'.key).val, last'.message)]_vars

\* C3: add_message(k, m, idx) with idx above the number of items under k
\* raises ValueError (the index-out-of-bounds one whenever the items of k
\* decode) and leaves the whole table as it was.
C3_OutOfBoundsIndexRejected ==
    [][(/\ last'.op = "add_message"
        /\ last'.idx.some
        /\ last'.idx.v > Len(query(table, last'.key)))
       => /\ ~last'.result.ok
          /\ last'.result.exc = "ValueError"
          /\ get_messages(table, last'.key).ok =>
                 last'.result = IndexOutOfBounds(last'.idx.v)
          /\ table' = table]_vars

\* C3's case: an index above the count was refused on a key that holds two
\* items.
C3_Witness ==
    /\ last.op = "add_message"
    /\ last.idx.some
    /\ last.result = IndexOutOfBounds(last.idx.v)
    /\ Len(query(table, last.key)) = 2
    /\ last.idx.v > 2

\* C4: delete_message(k, idx) removes the item at the row key of idx and
\* nothing else: every other item of the table stays, with its RowKey and
\* payload, and get_messages(k) gives the earlier items of k without that
\* one, in the same order.
C4_DeleteAtRemovesOnlyThatRow ==
    [][last'.op = "delete_message" =>
        /\ table' \subseteq table
        /\ \A x \in table :
               x \in table' <=>
                   ~(x.PartitionKey = last'.key /\ x.RowKey = _to_row_key(last'.idx))
        /\ get_messages(table', last'.key) =
               DecodeItems(Except(query(table, last'.key), _to_row_key(last'.idx)), 1)]_vars

\* C4's case: index 0 was deleted and the item at index 1 is still at the
\* row key of 1, the only item of the key.
C4_Witness ==
    /\ last.op = "delete_message"
    /\ last.idx = 0
    /\ RowKeys(query(table, last.key)) = <<_to_row_key(1)>>
    /\ get_messages(table, last.key).ok

\* C5: after delete_messages(k) has returned, no item is left under k and
\* get_messages(k) returns the empty list.
C5_DeleteAllLeavesNothing ==
    (last.op = "delete_messages" /\ last.result.ok) =>
        /\ \A x \in table : x.PartitionKey # last.key
        /\ get_messages(table, last.key) = Ok(<<>>)

\* C5's case: the history deleted had a gap (its first row key was not that
\* of index 0) and another key still holds an item.
C5_Witness ==
    /\ last.op = "delete_messages"
    /\ Len(last.response) >= 1
    /\ last.response[1] # _to_row_key(0)
    /\ table # {}

\* C6: get_keys returns exactly the keys that hold at least one item.
C6_GetKeysIsKeysWithItems ==
    last.op = "get_keys" =>
        last.result = Ok({k \in Keys : \E x \in table : x.PartitionKey = k})

\* C6's case: one key holds two items and is returned once, the other holds
\* none and is not returned.
C6_Witness ==
    /\ last.op = "get_keys"
    /\ last.result.val = {"b"}
    /\ Cardinality(table) = 2

\* C11: add_message(k, m, idx) that returned, with an item already at the
\* row key of idx, overwrites in place: the row keys under k are the same,
\* the item at the row key of idx carries serialize(m), every other item of
\* the table is unchanged.
C11_AppendAtOccupiedIndexOverwrites ==
    [][(/\ last'.op = "add_message"
        /\ last'.idx.some
        /\ last'.result.ok
        /\ \E x \in table : SameKey(x, last'.key, _to_row_key(last'.idx.v)))
       => /\ RowKeys(query(table', last'.key)) = RowKeys(query(table, last'.key))
          /\ Item(last'.key, _to_row_key(last'.idx.v), serialize(last'.message).val) \in table'
          /\ \A x \in table :
                 ~SameKey(x, last'.key, _to_row_key(last'.idx.v)) => x \in table'
          /\ Cardinality(table') = Cardinality(table)]_vars

\* C11's case: a put at an explicit index that did not add an item, on a
\* key with two items, and the item at that index now carries the message.
C11_Witness ==
    /\ last.op = "add_message"
    /\ last.idx.some
    /\ last.result.ok
    /\ ~last.grew
    /\ Len(query(table, last.key)) = 2
    /\ Item(last.key, _to_row_key(last.idx.v), serialize(last.message).val) \in table

\* C12 (as stated): delete_last_message(k), in every reachable state where
\* get_messages(k) returns a non-empty list, leaves get_messages(k) returning
\* that list without its last element.
C12_DeleteLastRemovesLast ==
    [][(/\ last'.op = "delete_last_message"
        /\ get_messages(table, last'.key).ok
        /\ Len(get_messages(table, last'.key).val) > 0)
       => get_messages(table', last'.key) =
              Ok(SubSeq(get_messages(table, last'.key).val, 1,
                        Len(get_messages(table, last'.key).val) - 1))]_vars

\* C13 (as stated): every RowKey in the table is exactly 10 decimal digits.
C13_RowKeysAreTenDigits ==
    \A x \in table : Len(x.RowKey) = RowKeyWidth /\ IsDigit(x.RowKey)

\* C17: delete_last_message(k) on a key with no item returns without error
\* and leaves the whole table as it was.
C17_DeleteLastOnEmptyIsNoOp ==
    [][(last'.op = "delete_last_message" /\ get_messages(table, last'.key) = Ok(<<>>))
       => (last'.result = Ok(PyNone) /\ table' = table)]_vars

\* C17's case: the delete aimed at the row key of -1, and the other key
\* holds an item at that very row key.
C17_Witness ==
    /\ last.op = "delete_last_message"
    /\ last.last_row_key = _to_row_key(-1)
    /\ \E x \in table : x.PartitionKey # last.key /\ x.RowKey = _to_row_key(-1)

WriteOps ==
    {"set_messages", "add_message", "delete_messages", "delete_message", "delete_last_message"}

\* C20: a method addressed to key k, returning or raising, leaves the items
\* of every other key as they were; get_messages and get_keys leave the
\* whole table as it was.
C20_OtherKeysUntouched ==
    [][/\ last'.op \in WriteOps =>
              \A x \in table \cup table' :
                  x.PartitionKey # last'.key => (x \in table <=> x \in table')
       /\ last'.op \in {"get_messages", "get_keys"} => table' = table]_vars

\* C20's case: set_messages replaced a history of one key while the other
\* key holds an item.
C20_Witness ==
    /\ last.op = "set_messages"
    /\ Len(last.response) >= 1
    /\ Len(last.messages) >= 1
    /\ \E x \in table : x.PartitionKey # last.key

\* C14: a store call that raises ends the method there: the caller gets
\* the store's exception, the call is not made again, the requests still
\* buffered are not sent, and the step changes no item.
C14_StoreFailureEndsTheCall ==
    [][\A c \in Clients :
           (client'[c].failed /\ client'[c] # client[c])
               => /\ client'[c].pc = "done"
                  /\ client'[c].result = StoreError
                  /\ client'[c].buffer = <<>>
                  /\ table' = table]_vars

\* C14's case: set_messages with messages to write failed after its query
\* had found items; the items found are all still there.
C14_Witness ==
    /\ client["p"].failed
    /\ client["p"].op = "set_messages"
    /\ Len(client["p"].messages) > 0
    /\ Len(client["p"].response) > 0
    /\ RowKeys(query(table, client["p"].key)) = client["p"].response

\* C15: the put of add_message returns without error whatever the row key
\* holds, and replaces the item there, one written meanwhile by another
\* add_message that read the same count included.
C15_AppendPutOverwritesSilently ==
    [][\A c \in Clients :
           (client[c].op = "add_message" /\ client[c].pc = "put" /\ client'[c].pc = "done")
               => LET rk == _to_row_key(IF client[c].idx.some THEN client[c].idx.v
                                        ELSE client[c].next_index)
                  IN  /\ client'[c].result = Ok(PyNone)
                      /\ table' = {x \in table : ~SameKey(x, client[c].key, rk)} \cup
                                  {Item(client[c].key, rk,
                                        serialize(client[c].messages[1]).val)}]_vars

\* C15's case: two add_message calls without index on one key, one of which
\* read its count while the other held the same count and had not written;
\* both returned None; the history is one longer than that count, holds the
\* message of one of them at that index and the message of the other
\* nowhere.
C15_Witness ==
    \E c \in Clients : \E o \in Clients \ {c} :
        /\ client[c].op = "add_message" /\ client[o].op = "add_message"
        /\ client[c].pc = "done" /\ client[o].pc = "done"
        /\ client[c].result = Ok(PyNone) /\ client[o].result = Ok(PyNone)
        /\ ~client[c].idx.some /\ ~client[o].idx.some
        /\ client[c].key = client[o].key
        /\ client[c].raced
        /\ client[c].next_index = client[o].next_index
        /\ client[c].messages # client[o].messages
        /\ LET h == query(table, client[c].key)
           IN  /\ Len(h) = client[c].next_index + 1
               /\ h[Len(h)].RowKey = _to_row_key(client[c].next_index)
               /\ h[Len(h)].msg = serialize(client[c].messages[1]).val
               /\ \A i \in 1..Len(h) : h[i].msg # serialize(client[o].messages[1]).val

\* The elements of a sequence.
Range(seq) == {seq[i] : i \in 1..Len(seq)}

\* C16: each request of the batch of set_messages is applied on its own,
\* the other client's calls in between; a delete removes only an item at a
\* row key the query had returned, a put writes message i at the row key of
\* i - 1, and no other item is touched.
C16_SetMessagesWritesRowByRow ==
    [][\A c \in Clients :
           (client[c].op = "set_messages" /\ client[c].pc = "batch" /\ client'[c] # client[c])
               => /\ client'[c].pc = "done" <=> Len(client[c].buffer) = 1
                  /\ \A x \in table \ table' :
                         /\ x.PartitionKey = client[c].key
                         /\ \/ x.RowKey \in Range(client[c].response)
                            \/ \E i \in 1..Len(client[c].messages) :
                                   x.RowKey = _to_row_key(i - 1)
                  /\ \A x \in table' \ table :
                         \E i \in 1..Len(client[c].messages) :
                             x = Item(client[c].key, _to_row_key(i - 1),
                                      serialize(client[c].messages[i]).val)]_vars

\* C16's case: set_messages replaced a history its query had found, no
\* row key both deleted and put, and returned None; the key holds an item
\* the other client's add_message wrote at a row key that was not in the
\* query's result and is beyond the new list: get_messages returns, but
\* not the new list, and the row keys are not those the query had found.
C16_Witness ==
    \E c \in Clients : \E o \in Clients \ {c} :
        /\ client[c].op = "set_messages"
        /\ client[c].pc = "done"
        /\ client[c].result = Ok(PyNone)
        /\ Len(client[c].response) > 0
        /\ \A i \in 1..Len(client[c].messages) :
               _to_row_key(i - 1) \notin Range(client[c].response)
        /\ client[o].op = "add_message" /\ client[o].pc = "done"
        /\ client[o].result = Ok(PyNone)
        /\ \E x \in table :
               /\ x = Item(client[c].key, _to_row_key(client[o].next_index),
                           serialize(client[o].messages[1]).val)
               /\ x.RowKey \notin Range(client[c].response)
               /\ \A i \in 1..Len(client[c].messages) : x.RowKey # _to_row_key(i - 1)
        /\ get_messages(table, client[c].key).ok
        /\ get_messages(table, client[c].key) # Ok(client[c].messages)
        /\ RowKeys(query(table, client[c].key)) # client[c].response

----------------------------------------------------------------------------
(* Properties of the codec *)

RECURSIVE OnlyScalarsAndObjects(_)
\* Built only from str, int, float, bool, None and nested objects.
OnlyScalarsAndObjects(d) ==
    \A i \in 1..Len(d.items) :
        LET v == d.items[i].v
        IN  \/ v.t \in {"str", "int", "float", "bool", "NoneType"}
            \/ v.t = "dict" /\ OnlyScalarsAndObjects(v)

\* C7 (as stated): deserialize(serialize(v)) is v, values and types, for every
\* object built from strings, ints, floats, booleans, None and objects.
C7_RoundTrip ==
    (phase # "input" /\ OnlyScalarsAndObjects(data)) =>
        /\ wire.ok
        /\ phase = "decoded" => back = Ok(data)

RECURSIVE BoolsTaggedBool(_, _)
\* Every boolean field of d, at any depth of objects, is {"BOOL": value} in
\* the encoding w of d.
BoolsTaggedBool(d, w) ==
    \A i \in 1..Len(d.items) :
        LET v == d.items[i].v
            e == w.items[i].v
        IN  /\ v.t = "bool" => e = Tagged("BOOL", v)
            /\ v.t = "dict" => (HasKey(e, "M") /\ BoolsTaggedBool(v, Get(e, "M")))

\* C8 (as stated): serialize gives every boolean field the BOOL tag, never
\* the N tag.
C8_BooleansGetBoolTag ==
    (phase # "input" /\ wire.ok) => BoolsTaggedBool(data, wire.val)

SupportedTypes == {"str", "bool", "int", "float", "NoneType", "dict", "list"}

RECURSIVE UnsupportedFields(_), UnsupportedInList(_)
\* The fields of d, of the objects nested in d and of the objects in its
\* lists, whose value is of no supported type: each as [key, type].
UnsupportedFields(d) ==
    UNION {LET v == d.items[i].v
           IN  IF v.t = "dict" THEN UnsupportedFields(v)
               ELSE IF v.t = "list" THEN UnsupportedInList(v.elems)
               ELSE IF v.t \in SupportedTypes THEN {}
               ELSE {[key |-> d.items[i].k, type |-> v.t]} : i \in 1..Len(d.items)}

UnsupportedInList(elems) ==
    UNION {IF elems[i].t = "dict" THEN UnsupportedFields(elems[i]) ELSE {} :
              i \in 1..Len(elems)}

\* C9: serialize of an object with a field of no supported type, at the top
\* or in a nested object, raises TypeError naming such a field's key and the
\* type of its value, and returns nothing.
C9_UnsupportedTypeRaises ==
    (phase # "input" /\ UnsupportedFields(data) # {}) =>
        /\ ~wire.ok
        /\ "val" \notin DOMAIN wire
        /\ wire.exc = "TypeError"
        /\ [key |-> wire.key, type |-> wire.type] \in UnsupportedFields(data)

\* C9's case: the field of no supported type is inside a nested object and
\* the error names that inner field.
C9_Witness ==
    /\ phase = "encoded"
    /\ data = PyDict(<<[k |-> "x", v |-> PyDict(<<[k |-> "in", v |-> PyObject]>>)],
                       [k |-> "y", v |-> PyInt(7)]>>)
    /\ wire = Raise("TypeError", "in", "object")

----------------------------------------------------------------------------
(* Properties of the row keys *)

\* C10: for indices 0 <= i < j (every index of the model is below 10^10) the
\* row key of i is below the row key of j as a string.
C10_RowKeyOrder ==
    (keyI # <<>> /\ 0 <= idxI /\ idxI < idxJ) => StrLess(keyI, keyJ)

\* C10's case: two indices with different digit counts have been formatted.
C10_Witness ==
    /\ keyI = <<"0", "0", "0", "0", "0", "0", "0", "0", "0", "9">>
    /\ keyJ = <<"0", "0", "0", "0", "0", "0", "0", "0", "1", "0">>
    /\ idxI = 9 /\ idxJ = 10

\* An optional minus sign and then one digit or more.
IsIntegerLiteral(chars) ==
    \/ IsDigit(chars)
    \/ Len(chars) > 1 /\ chars[1] = "-" /\ IsDigit(SubSeq(chars, 2, Len(chars)))

\* C18 (as stated): a field that serialize tagged N decodes to an int when
\* its text is an integer literal, negative ones included, and to a float
\* only when it is not.
C18_IntegerTextDecodesToInt ==
    (phase = "decoded" /\ back.ok) =>
        \A i \in 1..Len(wire.val.items) :
            LET e == wire.val.items[i].v
            IN  HasKey(e, "N") =>
                    (back.val.items[i].v.t = "int" <=> IsIntegerLiteral(Get(e, "N").s))

\* C19 (as stated): a list field is encoded under the L tag, same length and
\* order, each dict element by serialize and every other element as it is;
\* and a list of dicts decodes to a list equal to the original.
C19_ListElementsRoundTrip ==
    (phase # "input" /\ wire.ok) =>
        \A i \in 1..Len(data.items) :
            LET v == data.items[i].v
                e == wire.val.items[i].v
            IN  v.t = "list" =>
                    /\ HasKey(e, "L")
                    /\ Len(Get(e, "L").elems) = Len(v.elems)
                    /\ \A j \in 1..Len(v.elems) :
                           Get(e, "L").elems[j] =
                               IF v.elems[j].t = "dict" THEN serialize(v.elems[j]).val
                               ELSE v.elems[j]
                    /\ (phase = "decoded" /\ \A j \in 1..Len(v.elems) : v.elems[j].t = "dict")
                           => /\ DesValue(data.items[i].k, e) = Ok(v)
                              /\ back.ok => back.val.items[i].v = v

====
